---- MODULE Spec2Model ----
(***************************************************************************)
(* A model of whisper_fastapi.py: one process, one asyncio event loop, one *)
(* shared faster_whisper engine (`model`), and three families of handlers: *)
(*   - the HTTP endpoint `transcription`,                                  *)
(*   - the legacy dictation endpoints `konele_ws` and `translateapi`,      *)
(*   - the event-protocol `Handler.handle_event`.                          *)
(*                                                                         *)
(* Scheduling.  Every `async def` handler runs on the event loop: between  *)
(* two suspension points it runs alone among the loop's tasks.  The calls  *)
(* model.transcribe (in stream_builder) and build_json_result are plain    *)
(* synchronous calls, so a handler that makes them occupies the loop for   *)
(* their whole duration: the variable `loop` names that handler.  A        *)
(* StreamingResponse over a plain (non-async) generator is iterated by the *)
(* framework in a worker thread, one next() per thread call, and the       *)
(* worker threads run in parallel with whatever the loop is doing.         *)
(***************************************************************************)
EXTENDS Integers, Sequences, FiniteSets, TLC

VARIABLES
    loop,       \* the session whose handler occupies the event-loop thread
                \* inside a synchronous section, or NoSession
    inEngine,   \* the sessions executing inside the shared engine
    pc,         \* per session: where its handler stands
    req,        \* per session: the request's parameters
    calls,      \* per session: engine invocations of the current handler call
    gen,        \* per session: the lazy segment sequence stream_builder returned
    ws,         \* per session: the position of the writer generator
    body,       \* per session: the reply so far (a streamed body: the frames
                \* its writer has yielded)
    status,     \* per session: the HTTP status (0: none yet)
    args,       \* the arguments of the model.transcribe call in progress
    data,       \* per session: the bytes of the legacy request body so far
    connected,  \* per session: whether the client's connection is still open
    h,          \* per connection: the fields of its Handler instance
    last,       \* the handle_event call the latest step made or completed
                \* (NoCall when the latest step was none): its connection,
                \* its event (type, language, audio parameters), what it
                \* returned and wrote,
                \* and how often it
                \* called the engine and iterated the segment sequence
    turn        \* per connection (history): the chunks and the language that
                \* arrived since the last AudioStop was handled, and the
                \* audio parameters the first of these chunks declared

vars == <<loop, inEngine, pc, req, calls, gen, ws, body, status, args, data,
          connected, h, last, turn>>

httpVars == <<ws, status>>
koneleVars == <<data, connected>>

(***************************************************************************)
(* Bounds of the model.                                                    *)
(***************************************************************************)
\* The engine yields at most MaxSegs segments for one audio.
MaxSegs == 2

\* Concurrent sessions (requests, connections): two, which is what a
\* statement about one session and any other needs.
Sessions == {"s1", "s2"}
NoSession == "none"

(***************************************************************************)
(* The engine's lazy segment sequence.  Segment k of an audio is the       *)
(* number k; `pulled` segments have been taken, `exhausted` says the       *)
(* sequence has signalled its end, `iters` counts the consumers that       *)
(* started iterating it.                                                   *)
(***************************************************************************)
NoGen == [pulled |-> 0, exhausted |-> FALSE, iters |-> 0]

\* [i for i in generator]: one consumer takes all n segments.
Materialize(g, n) ==
    [pulled |-> n, exhausted |-> TRUE, iters |-> g.iters + 1]

\* One pull of the next segment: the engine yields one more segment (more) or
\* signals the end of the sequence.
Pull(g, more) ==
    IF more THEN [g EXCEPT !.pulled = @ + 1] ELSE [g EXCEPT !.exhausted = TRUE]

\* A consumer's `for segment in generator` starts.
Iterate(g) == [g EXCEPT !.iters = @ + 1]

(***************************************************************************)
(* What is sent to a client.  A frame is one chunk of a response body, one *)
(* JSON document or one event: `kind` names its shape, `index` is the      *)
(* number a cue carries, `seg` the segment it renders (for a materialized  *)
(* result: how many segments it holds).                                    *)
(***************************************************************************)
Frame(kind, index, seg) ==
    [kind |-> kind, index |-> index, seg |-> seg, text |-> "raw", id |-> <<>>]

\* The frame with its text replaced by the remote completion's.
Refined(f) == [f EXCEPT !.text = "refined"]

\* "data: [DONE]\n\n"
SseDone == Frame("done", 0, 0)

(***************************************************************************)
(* The writers: generators over the lazy segment sequence.  A writer is    *)
(* "new" (created, not started), "headed" (its header line yielded, its    *)
(* loop not started), "loop" (inside `for segment in generator`), "tail"   *)
(* (stream_writer after the loop) or "closed" (it raised StopIteration).   *)
(* Each operator is one next() on the writer in state w over the sequence  *)
(* g, where `more` says whether the engine has another segment; it gives   *)
(* the frames yielded (none: StopIteration), the writer's new state and    *)
(* the sequence's.                                                         *)
(***************************************************************************)
Step(out, w, g) == [out |-> out, ws |-> w, gen |-> g]

\* The body of `for segment in generator: yield f(segment)` entered from
\* state w (the loop starts when w is not yet "loop").
LoopStep(kind, w, g, more, indexed) ==
    LET g0 == IF w = "loop" THEN g ELSE Iterate(g)
        g1 == Pull(g0, more)
    IN  IF more
        THEN Step(<<Frame(kind, IF indexed THEN g0.pulled ELSE 0, g1.pulled)>>,
                  "loop", g1)
        ELSE Step(<<>>, "closed", g1)

\* stream_writer without its closing `yield "data: [DONE]\n\n"`
stream_writer_NoDone(w, g, more) == LoopStep("data", w, g, more, FALSE)

stream_writer(w, g, more) ==
    IF w = "tail" THEN Step(<<>>, "closed", g)
    ELSE LET r == LoopStep("data", w, g, more, FALSE)
         IN  IF more THEN r ELSE Step(<<SseDone>>, "tail", r.gen)

text_writer(w, g, more) == LoopStep("line", w, g, more, FALSE)

tsv_writer(w, g, more) ==
    IF w = "new" THEN Step(<<Frame("tsvheader", 0, 0)>>, "headed", g)
    ELSE LoopStep("row", w, g, more, FALSE)

\* f"{i}\n{start_time} --> {end_time}\n{text}\n\n", i from enumerate(generator)
srt_writer(w, g, more) == LoopStep("cue", w, g, more, TRUE)

vtt_writer(w, g, more) ==
    IF w = "new" THEN Step(<<Frame("WEBVTT", 0, 0)>>, "headed", g)
    ELSE LoopStep("vttcue", w, g, more, FALSE)

Writer(fmt, w, g, more) ==
    CASE fmt = "stream" -> stream_writer(w, g, more)
      [] fmt = "text"   -> text_writer(w, g, more)
      [] fmt = "tsv"    -> tsv_writer(w, g, more)
      [] fmt = "srt"    -> srt_writer(w, g, more)
      [] fmt = "vtt"    -> vtt_writer(w, g, more)

\* Whether the next next() on the writer reaches into the engine.
PullsEngine(fmt, w) ==
    \/ w = "loop"
    \/ w = "headed"
    \/ w = "new" /\ fmt \in {"stream", "text", "srt"}

\* build_json_result(generator, info): the JsonResult over all n segments.
build_json_result(g, n) ==
    [gen |-> Materialize(g, n), result |-> Frame("json", 0, n)]

\* gpt_refine_text reading the sequence a second time for the text
gpt_refine_text_Twice(g, n) ==
    [gen |-> Materialize(Materialize(g, n), n), remote |-> n > 0, seg |-> n]

\* gpt_refine_text up to its return or its suspension on the remote call:
\* it materializes the sequence, and returns "" without a remote call when
\* the stripped text is empty (no segment to join).
gpt_refine_text(g, n) ==
    [gen |-> build_json_result(g, n).gen, remote |-> n > 0, seg |-> n]

(***************************************************************************)
(* Requests.                                                               *)
(***************************************************************************)
\* response_format is any string; "bogus" stands for every value outside the
\* six the handler knows.
Formats == {"json", "text", "tsv", "srt", "vtt", "stream", "bogus"}
Streamed == {"stream", "text", "tsv", "srt", "vtt"}

\* The six VAD form fields of transcription, each Optional with Form(None):
\* a field is absent (None) or carries the caller's number.
VadFields == {"threshold", "neg_threshold", "min_speech_duration_ms",
              "max_speech_duration_s", "min_silence_duration_ms",
              "speech_pad_ms"}
Absent == [none |-> TRUE, v |-> 0]
Given(x) == [none |-> FALSE, v |-> x]
NoForm == [f \in VadFields |-> Absent]

\* A field of the options object handed to the engine: the engine's own
\* default, or a number assigned by the handler.
EngineDefault == [default |-> TRUE, v |-> 0]
Assigned(x) == [default |-> FALSE, v |-> x]

\* VadOptions(): every field at the engine's default
VadOptions == [f \in VadFields |-> EngineDefault]

\* vad_options=None, the default of stream_builder's parameter: the engine
\* builds its own options
NoVadOptions == VadOptions

\* the overlay written as `if vad_x:` instead of `if vad_x is not None:`
vad_overlay_Truthy(form) ==
    [f \in VadFields |->
        IF ~form[f].none /\ form[f].v # 0 THEN Assigned(form[f].v)
        ELSE VadOptions[f]]

\* lines 425-437: vad_options = VadOptions(), then one assignment per field
\* that is not None
vad_overlay(form) ==
    [f \in VadFields |->
        IF ~form[f].none THEN Assigned(form[f].v) ELSE VadOptions[f]]

NoReq == [kind |-> "none", fmt |-> "none", refine |-> FALSE, ctype |-> <<>>,
          vad |-> NoForm]

\* The arguments of model.transcribe this model follows: the audio file, the
\* language and the VAD parameters.
Upload == [container |-> "upload", channels |-> 0, rate |-> 0, width |-> 0,
           frames |-> <<>>]

\* Handler(): file_obj = None, wav_file = None, lang = None
NoFile == [container |-> "None", channels |-> 0, rate |-> 0, width |-> 0,
           frames |-> <<>>]
NewHandler == [file_obj |-> NoFile, wav_open |-> FALSE, lang |-> "None"]
NoArgs == [audio |-> NoFile, language |-> "None", vad_options |-> NoVadOptions]
NoTurn == [chunks |-> <<>>, lang |-> "None",
           params |-> [rate |-> 0, width |-> 0, channels |-> 0]]
NoCall == [conn |-> NoSession, event |-> "none", language |-> "",
           params |-> [rate |-> 0, width |-> 0, channels |-> 0],
           value |-> "none", wrote |-> <<>>, calls |-> 0, iters |-> 0]

Init ==
    /\ loop = NoSession
    /\ inEngine = {}
    /\ pc = [s \in Sessions |-> "idle"]
    /\ req = [s \in Sessions |-> NoReq]
    /\ calls = [s \in Sessions |-> 0]
    /\ gen = [s \in Sessions |-> NoGen]
    /\ ws = [s \in Sessions |-> "new"]
    /\ body = [s \in Sessions |-> <<>>]
    /\ status = [s \in Sessions |-> 0]
    /\ args = NoArgs
    /\ data = [s \in Sessions |-> <<>>]
    /\ connected = [s \in Sessions |-> FALSE]
    /\ h = [s \in Sessions |-> NewHandler]
    /\ last = NoCall
    /\ turn = [s \in Sessions |-> NoTurn]

(***************************************************************************)
(* stream_builder: the handler of session s calls model.transcribe.  The   *)
(* call is synchronous, so s holds the event loop until it returns.        *)
(***************************************************************************)
stream_builder(s, audio, language, vad_options) ==
    /\ args' = [audio |-> audio, language |-> language,
                vad_options |-> vad_options]
    /\ loop' = s
    /\ inEngine' = inEngine \cup {s}
    /\ calls' = [calls EXCEPT ![s] = @ + 1]
    /\ gen' = [gen EXCEPT ![s] = NoGen]

\* a synchronous section that keeps the event loop when it ends
Release_Held(s) ==
    /\ args' = NoArgs
    /\ loop' = loop
    /\ inEngine' = inEngine \ {s}

\* The synchronous section of s ends: its handler returns or suspends.
Release(s) ==
    /\ args' = NoArgs
    /\ loop' = NoSession
    /\ inEngine' = inEngine \ {s}

(***************************************************************************)
(* transcription: POST /v1/audio/transcriptions and /v1/audio/translations *)
(***************************************************************************)
\* A client's request reaches the server at any moment, whatever the event
\* loop is doing: it waits ("queued") until the loop runs its handler.
Arrive(s, kind) ==
    /\ pc[s] = "idle"
    /\ pc' = [pc EXCEPT ![s] = "queued"]
    /\ req' = [req EXCEPT ![s] = [NoReq EXCEPT !.kind = kind]]
    /\ last' = NoCall
    /\ UNCHANGED <<loop, inEngine, calls, gen, body, args, httpVars, koneleVars,
                   h, turn>>

\* The handler of a request of this kind can start: the request arrives just
\* now, or it has been waiting.
Arrived(s, kind) ==
    \/ pc[s] = "idle"
    \/ pc[s] = "queued" /\ req[s].kind = kind

\* The handler starts: it derives the task, builds the VAD options and calls
\* stream_builder.
HttpBegin(s, fmt, refine, form) ==
    /\ loop = NoSession
    /\ Arrived(s, "http")
    /\ req' = [req EXCEPT ![s] = [kind |-> "http", fmt |-> fmt,
                                  refine |-> refine, ctype |-> <<>>,
                                  vad |-> form]]
    /\ pc' = [pc EXCEPT ![s] = "transcribe"]
    /\ stream_builder(s, Upload, "None", vad_overlay(form))
    /\ last' = NoCall
    /\ UNCHANGED <<ws, body, status, koneleVars, h, turn>>

InHttp(s) == loop = s /\ pc[s] = "transcribe" /\ req[s].kind = "http"

\* stream, tsv, srt, vtt, and text without gpt_refine: a StreamingResponse
\* over the writer; nothing has been pulled when the handler returns.
HttpStreaming(s) ==
    /\ InHttp(s)
    /\ req[s].fmt \in Streamed
    /\ ~(req[s].fmt = "text" /\ req[s].refine)
    /\ pc' = [pc EXCEPT ![s] = "streaming"]
    /\ ws' = [ws EXCEPT ![s] = "new"]
    /\ status' = [status EXCEPT ![s] = 200]
    /\ Release(s)
    /\ last' = NoCall
    /\ UNCHANGED <<req, calls, gen, body, koneleVars, h, turn>>

\* json: return build_json_result(generator, info)
HttpJson(s, n) ==
    /\ InHttp(s)
    /\ req[s].fmt = "json"
    /\ LET r == build_json_result(gen[s], n)
       IN  /\ gen' = [gen EXCEPT ![s] = r.gen]
           /\ body' = [body EXCEPT ![s] = <<r.result>>]
    /\ pc' = [pc EXCEPT ![s] = "done"]
    /\ status' = [status EXCEPT ![s] = 200]
    /\ Release(s)
    /\ last' = NoCall
    /\ UNCHANGED <<req, calls, ws, koneleVars, h, turn>>

\* gpt_refine_text posting with a blocking client: the handler waits for
\* the completion without giving up the event loop
HttpRefine_Blocking(s, n) ==
    /\ InHttp(s)
    /\ req[s].fmt = "text" /\ req[s].refine
    /\ gen' = [gen EXCEPT ![s] = gpt_refine_text(gen[s], n).gen]
    /\ pc' = [pc EXCEPT ![s] = "refining"]
    /\ last' = NoCall
    /\ UNCHANGED <<loop, args, inEngine, req, calls, ws, body, status,
                   koneleVars, h, turn>>

\* text with gpt_refine: PlainTextResponse(await gpt_refine_text(...))
HttpRefine(s, n) ==
    /\ InHttp(s)
    /\ req[s].fmt = "text" /\ req[s].refine
    /\ LET r == gpt_refine_text(gen[s], n)
       IN  /\ gen' = [gen EXCEPT ![s] = r.gen]
           /\ IF r.remote
              THEN /\ pc' = [pc EXCEPT ![s] = "refining"]
                   /\ UNCHANGED <<body, status>>
              ELSE /\ pc' = [pc EXCEPT ![s] = "done"]
                   /\ body' = [body EXCEPT ![s] = <<Frame("plain", 0, 0)>>]
                   /\ status' = [status EXCEPT ![s] = 200]
    /\ Release(s)
    /\ last' = NoCall
    /\ UNCHANGED <<req, calls, ws, koneleVars, h, turn>>

\* raise HTTPException(400, "Invailed response_format")
HttpBadFormat(s) ==
    /\ InHttp(s)
    /\ req[s].fmt \notin Streamed \cup {"json"}
    /\ pc' = [pc EXCEPT ![s] = "failed"]
    /\ status' = [status EXCEPT ![s] = 400]
    /\ Release(s)
    /\ last' = NoCall
    /\ UNCHANGED <<req, calls, gen, ws, body, koneleVars, h, turn>>

(***************************************************************************)
(* A StreamingResponse body: the framework calls next() on the writer in a *)
(* worker thread (NextBegin, dispatched from the event loop); NextEnd is    *)
(* that call returning in its thread, with the frame it yields.            *)
(***************************************************************************)
NextBegin(s) ==
    /\ loop = NoSession
    /\ pc[s] = "streaming"
    /\ pc' = [pc EXCEPT ![s] = "pulling"]
    /\ inEngine' = IF PullsEngine(req[s].fmt, ws[s])
                   THEN inEngine \cup {s} ELSE inEngine
    /\ last' = NoCall
    /\ UNCHANGED <<loop, args, req, calls, gen, ws, body, status, koneleVars,
                   h, turn>>

NextEnd(s, more) ==
    /\ pc[s] = "pulling"
    /\ more => PullsEngine(req[s].fmt, ws[s]) /\ gen[s].pulled < MaxSegs
    /\ LET r == Writer(req[s].fmt, ws[s], gen[s], more)
       IN  /\ gen' = [gen EXCEPT ![s] = r.gen]
           /\ ws' = [ws EXCEPT ![s] = r.ws]
           /\ body' = [body EXCEPT ![s] = @ \o r.out]
           /\ pc' = [pc EXCEPT ![s] = IF r.ws = "closed" THEN "done" ELSE "streaming"]
    /\ inEngine' = inEngine \ {s}
    /\ last' = NoCall
    /\ UNCHANGED <<loop, args, req, calls, status, koneleVars, h, turn>>

(***************************************************************************)
(* The remote chat-completion call of gpt_refine_text returns.             *)
(***************************************************************************)
RefineReply(s, ok) ==
    /\ loop = NoSession
    /\ pc[s] = "refining"
    /\ req[s].kind = "http"
    /\ IF ok
       THEN /\ pc' = [pc EXCEPT ![s] = "done"]
            /\ body' = [body EXCEPT ![s] =
                            <<Refined(Frame("plain", 0, gen[s].pulled))>>]
            /\ status' = [status EXCEPT ![s] = 200]
       ELSE /\ pc' = [pc EXCEPT ![s] = "failed"]
            /\ status' = [status EXCEPT ![s] = 500]
            /\ UNCHANGED body
    /\ last' = NoCall
    /\ UNCHANGED <<loop, args, inEngine, req, calls, gen, ws, koneleVars,
                   h, turn>>

(***************************************************************************)
(* The legacy dictation protocol: konele_ws and translateapi.              *)
(*                                                                         *)
(* A byte is one of a few letters; a content type is the sequence of its   *)
(* comma-separated items, each a media type (no "=" in it) or key=value,   *)
(* where the value is the decimal integer n (val = "int") or some other    *)
(* text (val = "text"), such as "(int)16000".                              *)
(***************************************************************************)
\* The accumulated body of a WebSocket session is at most MaxData bytes.
MaxData == 4

EOS == <<"E", "O", "S">>

DefaultChannels == 1
DefaultRate == 16000
SampleWidth == 2

Media(m) == [key |-> "", val |-> m, n |-> 0]
Param(k, n) == [key |-> k, val |-> "int", n |-> n]
TextParam(k) == [key |-> k, val |-> "text", n |-> 0]

\* data[-3:] == b"EOS"
EndsWithEOS(d) == Len(d) >= 3 /\ SubSeq(d, Len(d) - 2, Len(d)) = EOS

\* hashlib.md5(data).hexdigest(): the id is a function of the bytes hashed,
\* and different bytes give different ids (collisions aside).
md5(d) == <<"md5">> \o d

\* content_type.startswith("audio/x-flac")
IsFlac(ct) == Len(ct) > 0 /\ ct[1].key = "" /\ ct[1].val = "audio/x-flac"

\* info = {k: v for k, v in (i.split("=") for i in splited)}; info.get(k, d):
\* the last item with key k decides.
HasKey(ct, k) == \E i \in 1..Len(ct) : ct[i].key = k
InfoGet(ct, k) ==
    ct[CHOOSE i \in 1..Len(ct) :
           /\ ct[i].key = k
           /\ \A j \in 1..Len(ct) : ct[j].key = k => j <= i]

\* int(info.get(k, default)) raises ValueError on a value that is no integer.
IntFails(ct, k) == HasKey(ct, k) /\ InfoGet(ct, k).val # "int"
IntOf(ct, k, default) == IF HasKey(ct, k) THEN InfoGet(ct, k).n ELSE default

\* wave.open(file_obj, "wb") with the three set* calls and writeframes(d)
Wav(channels, rate, width, d) ==
    [container |-> "wav", channels |-> channels, rate |-> rate,
     width |-> width, frames |-> d]

\* pydub.AudioSegment.from_file(..., format="flac").export(file_obj, "wav"):
\* the parameters are those of the FLAC stream, which this model leaves open.
FlacDecoded(d) ==
    [container |-> "flac", channels |-> 0, rate |-> 0, width |-> 0, frames |-> d]

\* konele_ws, lines 291-300
ws_audio(ct, d) ==
    IF IsFlac(ct) THEN FlacDecoded(d)
    ELSE Wav(DefaultChannels, DefaultRate, SampleWidth, d)

\* translateapi, lines 351-352 and 360-369
post_audio(ct, d) ==
    IF IsFlac(ct) THEN FlacDecoded(d)
    ELSE Wav(IntOf(ct, "channels", DefaultChannels),
             IntOf(ct, "rate", DefaultRate), SampleWidth, d)

\* The JSON envelope of a legacy reply: the text of n segments, the id.
Envelope(kind, n, id) == [Frame(kind, 0, n) EXCEPT !.id = id]

\* await websocket.accept()
WsAccept(s, refine, ct) ==
    /\ loop = NoSession
    /\ pc[s] = "idle"
    /\ req' = [req EXCEPT ![s] = [kind |-> "ws", fmt |-> "none",
                                  refine |-> refine, ctype |-> ct,
                                  vad |-> NoForm]]
    /\ pc' = [pc EXCEPT ![s] = "receiving"]
    /\ connected' = [connected EXCEPT ![s] = TRUE]
    /\ data' = [data EXCEPT ![s] = <<>>]
    /\ last' = NoCall
    /\ UNCHANGED <<loop, inEngine, calls, gen, body, args, httpVars, h, turn>>

\* The receive loop is left with the bytes d: md5, the wave file, and the
\* call of stream_builder follow without a suspension point.
WsTranscribe(s, d) ==
    /\ pc' = [pc EXCEPT ![s] = "transcribe"]
    /\ stream_builder(s, ws_audio(req[s].ctype, d), "None", NoVadOptions)

\* data += await websocket.receive_bytes()
WsReceive(s, frame) ==
    /\ loop = NoSession
    /\ pc[s] = "receiving"
    /\ Len(data[s]) + Len(frame) <= MaxData
    /\ LET d == data[s] \o frame
       IN  /\ data' = [data EXCEPT ![s] = d]
           /\ IF EndsWithEOS(d)
              THEN WsTranscribe(s, d)
              ELSE UNCHANGED <<pc, loop, inEngine, calls, gen, args>>
    /\ last' = NoCall
    /\ UNCHANGED <<req, body, connected, httpVars, h, turn>>

\* receive_bytes raises: the client went away ("disconnect"), or it sent a
\* text frame ("text"), which leaves the connection open.  `except: break`.
WsReceiveFails(s, cause) ==
    /\ loop = NoSession
    /\ pc[s] = "receiving"
    /\ connected' = [connected EXCEPT ![s] = (cause = "text")]
    /\ WsTranscribe(s, data[s])
    /\ last' = NoCall
    /\ UNCHANGED <<req, body, data, httpVars, h, turn>>

\* translateapi up to its call of stream_builder; int() of a declared value
\* that is no integer ends the request with a server error.
PostBegin(s, refine, ct, d) ==
    /\ loop = NoSession
    /\ Arrived(s, "post")
    /\ req' = [req EXCEPT ![s] = [kind |-> "post", fmt |-> "none",
                                  refine |-> refine, ctype |-> ct,
                                  vad |-> NoForm]]
    /\ connected' = [connected EXCEPT ![s] = TRUE]
    /\ IF IntFails(ct, "channels") \/ IntFails(ct, "rate")
       THEN /\ pc' = [pc EXCEPT ![s] = "failed"]
            /\ status' = [status EXCEPT ![s] = 500]
            /\ UNCHANGED <<data, loop, inEngine, calls, gen, args>>
       ELSE /\ data' = [data EXCEPT ![s] = d]
            /\ pc' = [pc EXCEPT ![s] = "transcribe"]
            /\ stream_builder(s, post_audio(ct, d), "None", NoVadOptions)
            /\ UNCHANGED status
    /\ last' = NoCall
    /\ UNCHANGED <<body, ws, h, turn>>

InKonele(s) ==
    loop = s /\ pc[s] = "transcribe" /\ req[s].kind \in {"ws", "post"}

\* The reply: await websocket.send_json(...) and close(), which raise when
\* the client is gone; or the returned dict of translateapi.
Reply(s, text) ==
    IF req[s].kind = "ws" /\ ~connected[s]
    THEN /\ pc' = [pc EXCEPT ![s] = "failed"]
         /\ UNCHANGED <<body, status, connected>>
    ELSE /\ pc' = [pc EXCEPT ![s] = "done"]
         /\ body' = [body EXCEPT ![s] = <<text>>]
         /\ status' = [status EXCEPT ![s] =
                           IF req[s].kind = "post" THEN 200 ELSE @]
         /\ connected' = [connected EXCEPT ![s] = FALSE]

\* result = build_json_result(generator, info).text, or the "" that
\* gpt_refine_text returns for an empty text; then the reply.
KoneleResult(s, n) ==
    /\ InKonele(s)
    /\ IF req[s].refine
       THEN /\ ~gpt_refine_text(gen[s], n).remote
            /\ gen' = [gen EXCEPT ![s] = gpt_refine_text(gen[s], n).gen]
       ELSE gen' = [gen EXCEPT ![s] = build_json_result(gen[s], n).gen]
    /\ Reply(s, Envelope(req[s].kind, n, md5(data[s])))
    /\ Release(s)
    /\ last' = NoCall
    /\ UNCHANGED <<req, calls, ws, data, h, turn>>

\* result = await gpt_refine_text(generator, info, initial_prompt), up to
\* the suspension on the remote call.
KoneleRefine(s, n) ==
    /\ InKonele(s)
    /\ req[s].refine
    /\ gpt_refine_text(gen[s], n).remote
    /\ gen' = [gen EXCEPT ![s] = gpt_refine_text(gen[s], n).gen]
    /\ pc' = [pc EXCEPT ![s] = "refining"]
    /\ Release(s)
    /\ last' = NoCall
    /\ UNCHANGED <<req, calls, body, httpVars, koneleVars, h, turn>>

\* a legacy handler that catches the failure of the remote call and replies
\* with the text it already has
KoneleRefineReply_Fallback(s, ok) ==
    /\ loop = NoSession
    /\ pc[s] = "refining"
    /\ req[s].kind \in {"ws", "post"}
    /\ Reply(s, IF ok
                THEN Refined(Envelope(req[s].kind, gen[s].pulled, md5(data[s])))
                ELSE Envelope(req[s].kind, gen[s].pulled, md5(data[s])))
    /\ last' = NoCall
    /\ UNCHANGED <<loop, args, inEngine, req, calls, gen, ws, data, h, turn>>

\* The remote call returns to a legacy handler: the completion, or an
\* exception (the request failed, the document has no choices[0].message),
\* which nothing catches.
KoneleRefineReply(s, ok) ==
    /\ loop = NoSession
    /\ pc[s] = "refining"
    /\ req[s].kind \in {"ws", "post"}
    /\ IF ok
       THEN Reply(s, Refined(Envelope(req[s].kind, gen[s].pulled, md5(data[s]))))
       ELSE /\ pc' = [pc EXCEPT ![s] = "failed"]
            /\ status' = [status EXCEPT ![s] =
                              IF req[s].kind = "post" THEN 500 ELSE @]
            /\ UNCHANGED <<body, connected>>
    /\ last' = NoCall
    /\ UNCHANGED <<loop, args, inEngine, req, calls, gen, ws, data, h, turn>>

KoneleNext(s, frames, ctypes, payloads) ==
    \/ \E refine \in BOOLEAN, ct \in ctypes : WsAccept(s, refine, ct)
    \/ \E frame \in frames : WsReceive(s, frame)
    \/ \E cause \in {"disconnect", "text"} : WsReceiveFails(s, cause)
    \/ \E refine \in BOOLEAN, ct \in ctypes, d \in payloads :
           PostBegin(s, refine, ct, d)
    \/ \E n \in 0..MaxSegs : KoneleResult(s, n)
    \/ \E n \in 0..MaxSegs : KoneleRefine(s, n)
    \/ \E ok \in BOOLEAN : KoneleRefineReply(s, ok)

\* The inputs of the legacy handlers in the server-wide specification.
RawType == <<Media("audio/x-raw")>>
Declared(c, r) == <<Media("audio/x-raw"), Param("channels", c), Param("rate", r)>>
SomeFrames == {<<"x">>, EOS}
SomeTypes == {RawType, Declared(2, 8000)}
SomePayloads == {<<"x">>}

(***************************************************************************)
(* The event protocol: class Handler, one instance per connection.         *)
(*                                                                         *)
(* An event is a record: its type, and for an AudioChunk the declared      *)
(* parameters and the audio bytes (one letter stands for a chunk's bytes), *)
(* for a Transcribe the language ("": none given).  handle_event is called *)
(* by the connection's read loop, one event at a time.  What that loop     *)
(* does after handle_event returns False is the library's business: here   *)
(* the connection may go on to a next turn or be closed (WyDisconnect).    *)
(***************************************************************************)
\* An open buffer holds at most MaxChunks chunks.
MaxChunks == 2

NoParams == [rate |-> 0, width |-> 0, channels |-> 0]
AudioChunk(p, a) ==
    [type |-> "AudioChunk", params |-> p, audio |-> a, language |-> ""]
AudioStop ==
    [type |-> "AudioStop", params |-> NoParams, audio |-> "", language |-> ""]
Transcribe(l) ==
    [type |-> "Transcribe", params |-> NoParams, audio |-> "", language |-> l]
Describe ==
    [type |-> "Describe", params |-> NoParams, audio |-> "", language |-> ""]
Unknown ==
    [type |-> "Unknown", params |-> NoParams, audio |-> "", language |-> ""]

EventsOf(params, audios, languages) ==
    {AudioChunk(p, a) : p \in params, a \in audios}
        \cup {Transcribe(l) : l \in languages}
        \cup {AudioStop, Describe, Unknown}

\* handle_event(ev) on connection c returned `value` (or raised, or is
\* pending in the engine) having written `wrote`.
Call(c, ev, value, wrote) ==
    [conn |-> c, event |-> ev.type, language |-> ev.language,
     params |-> ev.params, value |-> value, wrote |-> wrote,
     calls |-> 0, iters |-> 0]

\* lang assigned on the class, shared by every instance
SetLang_Shared(hh, c, l) == [x \in DOMAIN hh |-> [hh[x] EXCEPT !.lang = l]]

\* self.lang = l, on the instance of connection c
SetLang(hh, c, l) == [hh EXCEPT ![c].lang = l]

\* handle_event without its `self.lang = None`
ClearLang_Skipped(hh, c) == hh

\* self.lang = None, line 512
ClearLang(hh, c) == SetLang(hh, c, "None")

\* the chunk put in front of the buffer instead of behind it
writeframes_Prepend(f, a) == [f EXCEPT !.frames = <<a>> \o @]

\* self.wav_file.writeframes(chunk.audio)
writeframes(f, a) == [f EXCEPT !.frames = Append(@, a)]

\* AudioStop handled without looking at wav_file
BufferOpen_Unchecked(hc) == TRUE

\* assert self.wav_file is not None (without assertions, None.close() raises)
BufferOpen(hc) == hc.wav_open

\* the three set* calls made for every chunk, not only the first
Opened_EveryChunk(hc, chunk) ==
    [hc EXCEPT !.file_obj = Wav(chunk.params.channels, chunk.params.rate,
                                chunk.params.width,
                                IF hc.wav_open THEN hc.file_obj.frames ELSE <<>>),
               !.wav_open = TRUE]

\* the chunk written to the file_obj left by the previous turn
Opened_Reused(hc, chunk) ==
    IF hc.wav_open \/ hc.file_obj # NoFile THEN [hc EXCEPT !.wav_open = TRUE]
    ELSE [hc EXCEPT !.file_obj = Wav(chunk.params.channels, chunk.params.rate,
                                     chunk.params.width, <<>>),
                    !.wav_open = TRUE]

\* lines 483-489: the buffer this chunk finds, opened by it if none is open
Opened(hc, chunk) ==
    IF hc.wav_open THEN hc
    ELSE [hc EXCEPT !.file_obj = Wav(chunk.params.channels, chunk.params.rate,
                                     chunk.params.width, <<>>),
                    !.wav_open = TRUE]

\* A connection is accepted: Handler() is constructed for it.
WyConnect(c) ==
    /\ loop = NoSession
    /\ pc[c] = "idle"
    /\ req' = [req EXCEPT ![c] = [NoReq EXCEPT !.kind = "wyoming"]]
    /\ pc' = [pc EXCEPT ![c] = "open"]
    /\ connected' = [connected EXCEPT ![c] = TRUE]
    /\ h' = [h EXCEPT ![c] = NewHandler]
    /\ last' = NoCall
    /\ UNCHANGED <<loop, inEngine, calls, gen, body, args, data, turn, httpVars>>

Handling(c, ev, type) ==
    /\ loop = NoSession
    /\ pc[c] = "open"
    /\ ev.type = type

WyChunk(c, ev) ==
    /\ Handling(c, ev, "AudioChunk")
    /\ h[c].wav_open => Len(h[c].file_obj.frames) < MaxChunks
    /\ h' = [h EXCEPT ![c] =
                [Opened(@, ev) EXCEPT !.file_obj = writeframes(@, ev.audio)]]
    /\ last' = Call(c, ev, "True", <<>>)
    /\ turn' = [turn EXCEPT ![c].chunks = Append(@, ev.audio),
                            ![c].params = IF turn[c].chunks = <<>>
                                          THEN ev.params ELSE @]
    /\ UNCHANGED <<loop, inEngine, pc, req, calls, gen, body, args, connected,
                   data, httpVars>>

\* AudioStop with a buffer open, up to the call of stream_builder
WyStop(c, ev) ==
    /\ Handling(c, ev, "AudioStop")
    /\ BufferOpen(h[c])
    /\ h' = [h EXCEPT ![c].wav_open = FALSE]
    /\ pc' = [pc EXCEPT ![c] = "transcribe"]
    /\ stream_builder(c, h[c].file_obj, h[c].lang, NoVadOptions)
    /\ last' = Call(c, ev, "pending", <<>>)
    /\ UNCHANGED <<req, body, connected, data, turn, httpVars>>

\* AudioStop with no buffer open: the assertion fails, handle_event raises
\* and the connection's task ends, its handler instance with it.
WyStopFails(c, ev) ==
    /\ Handling(c, ev, "AudioStop")
    /\ ~BufferOpen(h[c])
    /\ pc' = [pc EXCEPT ![c] = "failed"]
    /\ connected' = [connected EXCEPT ![c] = FALSE]
    /\ h' = [h EXCEPT ![c] = NewHandler]
    /\ turn' = [turn EXCEPT ![c] = NoTurn]
    /\ last' = Call(c, ev, "raised", <<>>)
    /\ UNCHANGED <<loop, inEngine, req, calls, gen, body, args, data, httpVars>>

\* lines 508-513: the text, the Transcript event, self.lang = None, False
WyTranscript(c, n) ==
    /\ loop = c
    /\ pc[c] = "transcribe"
    /\ req[c].kind = "wyoming"
    /\ last' = [Call(c, AudioStop, "False", <<Frame("Transcript", 0, n)>>)
                    EXCEPT !.calls = calls[c],
                           !.iters = build_json_result(gen[c], n).gen.iters]
    /\ h' = ClearLang(h, c)
    /\ pc' = [pc EXCEPT ![c] = "open"]
    /\ turn' = [turn EXCEPT ![c] = NoTurn]
    \* the call is over: its generator is gone, the next turn counts anew
    /\ gen' = [gen EXCEPT ![c] = NoGen]
    /\ calls' = [calls EXCEPT ![c] = 0]
    /\ Release(c)
    /\ UNCHANGED <<req, body, connected, data, httpVars>>

\* the Transcribe branch without its `if transcribe.language:`
WyTranscribe_Unconditional(c, ev) ==
    /\ Handling(c, ev, "Transcribe")
    /\ h' = SetLang(h, c, ev.language)
    /\ turn' = [turn EXCEPT ![c].lang = IF ev.language # "" THEN ev.language ELSE @]
    /\ last' = Call(c, ev, "True", <<>>)
    /\ UNCHANGED <<loop, inEngine, pc, req, calls, gen, body, args, connected,
                   data, httpVars>>

WyTranscribe(c, ev) ==
    /\ Handling(c, ev, "Transcribe")
    /\ h' = IF ev.language # "" THEN SetLang(h, c, ev.language) ELSE h
    /\ turn' = [turn EXCEPT ![c].lang = IF ev.language # "" THEN ev.language ELSE @]
    /\ last' = Call(c, ev, "True", <<>>)
    /\ UNCHANGED <<loop, inEngine, pc, req, calls, gen, body, args, connected,
                   data, httpVars>>

WyDescribe(c, ev) ==
    /\ Handling(c, ev, "Describe")
    /\ last' = Call(c, ev, "True", <<Frame("Info", 0, 0)>>)
    /\ UNCHANGED <<loop, inEngine, pc, req, calls, gen, body, args, connected,
                   data, h, turn, httpVars>>

\* any other event: return True
WyIgnore(c, ev) ==
    /\ Handling(c, ev, "Unknown")
    /\ last' = Call(c, ev, "True", <<>>)
    /\ UNCHANGED <<loop, inEngine, pc, req, calls, gen, body, args, connected,
                   data, h, turn, httpVars>>

\* The connection ends between two events: the handler instance, with any
\* buffer it holds, is dropped.
WyDisconnect(c) ==
    /\ loop = NoSession
    /\ pc[c] = "open"
    /\ pc' = [pc EXCEPT ![c] = "closed"]
    /\ connected' = [connected EXCEPT ![c] = FALSE]
    /\ h' = [h EXCEPT ![c] = NewHandler]
    /\ turn' = [turn EXCEPT ![c] = NoTurn]
    /\ last' = NoCall
    /\ UNCHANGED <<loop, inEngine, req, calls, gen, body, args, data, httpVars>>

WyomingNext(c, events) ==
    \/ WyConnect(c)
    \/ \E ev \in events :
           \/ WyChunk(c, ev)
           \/ WyStop(c, ev)
           \/ WyStopFails(c, ev)
           \/ WyTranscribe(c, ev)
           \/ WyDescribe(c, ev)
           \/ WyIgnore(c, ev)
    \/ \E n \in 0..MaxSegs : WyTranscript(c, n)
    \/ WyDisconnect(c)

\* The chunk parameters, chunk bytes and languages the events are drawn from.
Pcm16k == [rate |-> 16000, width |-> 2, channels |-> 1]
Pcm8k == [rate |-> 8000, width |-> 1, channels |-> 2]
Events == EventsOf({Pcm16k, Pcm8k}, {"a", "b"}, {"", "fr", "en"})
SomeEvents == EventsOf({Pcm16k}, {"a"}, {"fr"})

\* The VAD forms of the server-wide specification: none of the six fields
\* supplied.
SomeForms == {NoForm}

HttpNext(s) ==
    \/ \E fmt \in Formats, refine \in BOOLEAN, form \in SomeForms :
           HttpBegin(s, fmt, refine, form)
    \/ HttpStreaming(s)
    \/ \E n \in 0..MaxSegs : HttpJson(s, n)
    \/ \E n \in 0..MaxSegs : HttpRefine(s, n)
    \/ HttpBadFormat(s)
    \/ NextBegin(s)
    \/ \E more \in BOOLEAN : NextEnd(s, more)
    \/ \E ok \in BOOLEAN : RefineReply(s, ok)

Next ==
    \E s \in Sessions :
        \/ HttpNext(s)
        \/ KoneleNext(s, SomeFrames, SomeTypes, SomePayloads)
        \/ WyomingNext(s, SomeEvents)

Spec == Init /\ [][Next]_vars

\* The event protocol alone, with its events drawn from the wider set.
NextWyoming == \E c \in Sessions : WyomingNext(c, Events)
SpecWyoming == Init /\ [][NextWyoming]_vars

\* The VAD forms: none of the fields supplied, exactly one supplied (0 or
\* 1), or all six supplied, each with 0 or 1.
OnlyField(f, x) == [NoForm EXCEPT ![f] = Given(x)]
Forms ==
    {NoForm}
        \cup {OnlyField(f, x) : f \in VadFields, x \in {0, 1}}
        \cup {[f \in VadFields |-> Given(v[f])] : v \in [VadFields -> {0, 1}]}

\* JSON transcription requests alone, with their VAD fields drawn from Forms.
NextVad ==
    \E s \in Sessions :
        \/ \E form \in Forms : HttpBegin(s, "json", FALSE, form)
        \/ \E n \in 0..MaxSegs : HttpJson(s, n)
SpecVad == Init /\ [][NextVad]_vars

\* Legacy WebSocket sessions alone (no refinement, raw audio), with frames
\* that deliver the sentinel whole or split in two.
SplitFrames == {<<"x">>, <<"E", "O">>, <<"S">>, EOS}
NextKonele ==
    \E s \in Sessions :
        \/ WsAccept(s, FALSE, RawType)
        \/ \E frame \in SplitFrames : WsReceive(s, frame)
        \/ \E cause \in {"disconnect", "text"} : WsReceiveFails(s, cause)
        \/ \E n \in 0..MaxSegs : KoneleResult(s, n)
SpecKonele == Init /\ [][NextKonele]_vars

(***************************************************************************)
(* Scheduling.  The steps a handler takes once its request is in: the      *)
(* event loop runs every ready callback in turn (first in, first out), a   *)
(* worker thread runs the next() it was given, the engine and the remote   *)
(* completion call return.  What clients do (connect, send a frame or an   *)
(* event, go away) is under no such obligation.                            *)
(***************************************************************************)
Continue(s) ==
    \/ /\ pc[s] = "queued"
       /\ \/ \E fmt \in Formats, refine \in BOOLEAN, form \in SomeForms :
                 HttpBegin(s, fmt, refine, form)
          \/ \E refine \in BOOLEAN, ct \in SomeTypes, d \in SomePayloads :
                 PostBegin(s, refine, ct, d)
    \/ HttpStreaming(s)
    \/ \E n \in 0..MaxSegs : HttpJson(s, n) \/ HttpRefine(s, n)
    \/ HttpBadFormat(s)
    \/ NextBegin(s)
    \/ \E more \in BOOLEAN : NextEnd(s, more)
    \/ \E ok \in BOOLEAN : RefineReply(s, ok) \/ KoneleRefineReply(s, ok)
    \/ \E n \in 0..MaxSegs :
           KoneleResult(s, n) \/ KoneleRefine(s, n) \/ WyTranscript(s, n)

\* The server with requests that wait for the event loop.
LiveFrames == {EOS}
LiveTypes == {RawType}
LiveEvents == {AudioChunk(Pcm16k, "a"), AudioStop}
NextLive ==
    \E s \in Sessions :
        \/ \E kind \in {"http", "post"} : Arrive(s, kind)
        \/ HttpNext(s)
        \/ KoneleNext(s, LiveFrames, LiveTypes, SomePayloads)
        \/ WyConnect(s)
        \/ \E ev \in LiveEvents : WyChunk(s, ev) \/ WyStop(s, ev)
        \/ \E n \in 0..MaxSegs : WyTranscript(s, n)
        \/ WyDisconnect(s)

SpecLive ==
    Init /\ [][NextLive]_vars /\ \A s \in Sessions : SF_vars(Continue(s))

(***************************************************************************)
(* The claims.                                                             *)
(***************************************************************************)
InWyoming(c) == loop = c /\ req[c].kind = "wyoming"

\* C1: at most one session at a time executes inside the shared engine,
\* where inside covers model.transcribe and every pull of a next segment,
\* those made for a StreamingResponse body included.
C1_EngineMutualExclusion == Cardinality(inEngine) <= 1

\* C2: an AudioStop handled when no AudioChunk has arrived since the
\* connection started or since the previous AudioStop makes handle_event
\* raise and ends the connection; the engine is not called and no Transcript
\* (nothing at all) is written.
C2_StopWithoutBuffer ==
    [][\A c \in Sessions :
          (/\ pc[c] = "open"
           /\ turn[c].chunks = <<>>
           /\ last'.conn = c
           /\ last'.event = "AudioStop")
          => /\ last'.value = "raised"
             /\ last'.wrote = <<>>
             /\ pc'[c] = "failed"
             /\ loop' = NoSession
             /\ c \notin inEngine'
             /\ calls'[c] = calls[c]
             /\ args' = NoArgs]_vars

C2_Rejected ==
    \E c \in Sessions : last = Call(c, AudioStop, "raised", <<>>) /\ pc[c] = "failed"

\* C3: the language passed to the engine at an AudioStop is that of the most
\* recent Transcribe event carrying a language that arrived since the
\* previous AudioStop of the connection (or since its start), and none when
\* no such event arrived; once the AudioStop is handled no language is
\* pending.
C3_LanguageConsumedOnce ==
    \A c \in Sessions :
        /\ InWyoming(c) => args.language = turn[c].lang
        /\ (last.conn = c /\ last.value = "False") => h[c].lang = "None"

C3_OverrideUsed ==
    \E c \in Sessions :
        InWyoming(c) /\ args.language = "fr" /\ Len(turn[c].chunks) = MaxChunks

\* C4: the audio submitted to the engine at an AudioStop is the
\* concatenation, in arrival order, of the bytes of the AudioChunk events
\* received since the previous AudioStop of the connection: none dropped,
\* none twice, none of an earlier turn.
C4_ChunksInArrivalOrder ==
    \A c \in Sessions : InWyoming(c) => args.audio.frames = turn[c].chunks

C4_TwoChunksSubmitted ==
    \E c \in Sessions : InWyoming(c) /\ args.audio.frames = <<"a", "b">>

\* C5: an event handled on one connection leaves the handler state (buffer,
\* open or closed, pending language) of every other connection as it was.
C5_SessionIsolation ==
    [][\A c, d \in Sessions :
          (c # d /\ last'.conn = d) => h'[c] = h[c]]_vars

C5_TwoOpenBuffers ==
    \E c, d \in Sessions :
        /\ c # d
        /\ last.conn = d
        /\ h[c].wav_open /\ h[d].wav_open
        /\ h[c].file_obj.frames # h[d].file_obj.frames
        /\ h[c].lang = "fr" /\ h[d].lang = "en"

\* C6: a legacy WebSocket session whose accumulated bytes do not end in EOS
\* (the client went away, a receive failed) is not transcribed and gets no
\* result envelope.
C6_NoResultWithoutEOS ==
    \A s \in Sessions :
        (req[s].kind = "ws" /\ ~EndsWithEOS(data[s]))
        => calls[s] = 0 /\ body[s] = <<>>

\* C7: on every handler path the engine is invoked once per request or turn
\* and the segment sequence it returned is iterated at most once; the
\* refinement paths materialize it once.
C7_SingleConsumption ==
    /\ \A s \in Sessions :
          /\ calls[s] <= 1
          /\ gen[s].iters <= 1
          /\ pc[s] \in {"transcribe", "streaming", "pulling", "refining", "done"}
             => calls[s] = 1
          /\ (pc[s] = "failed" /\ req[s].kind = "http") => calls[s] = 1
          /\ pc[s] = "refining" => gen[s].iters = 1 /\ gen[s].exhausted
          /\ (pc[s] = "done" /\ req[s].kind \in {"ws", "post"}) => gen[s].iters = 1
    /\ last.value = "False" => last.calls = 1 /\ last.iters = 1

C7_RefinedOnce ==
    \E s \in Sessions :
        /\ pc[s] = "done"
        /\ req[s].kind = "ws" /\ req[s].refine
        /\ body[s] # <<>> /\ body[s][1].text = "refined"
        /\ gen[s].pulled = MaxSegs

\* C8: for response_format=stream the body is one data frame per segment,
\* in engine order, then exactly one [DONE] frame as the last frame; the
\* frame of segment k is in the body before segment k+1 is pulled.
C8_StreamFrames ==
    \A s \in Sessions :
        req[s].fmt = "stream" =>
            LET b == body[s]
                k == gen[s].pulled
            IN  /\ Len(b) \in {k, k + 1}
                /\ \A i \in 1..Len(b) : i <= k => b[i] = Frame("data", 0, i)
                /\ Len(b) = k + 1 <=> gen[s].exhausted
                /\ Len(b) = k + 1 => b[k + 1] = SseDone
                /\ pc[s] = "done" => Len(b) = k + 1

C8_ThreeFrames ==
    \E s \in Sessions :
        /\ req[s].fmt = "stream"
        /\ pc[s] = "done"
        /\ body[s] = <<Frame("data", 0, 1), Frame("data", 0, 2), SseDone>>

\* C9: the k-th cue of an srt body carries the number k.
C9_SrtCuesOneBased ==
    \A s \in Sessions :
        req[s].fmt = "srt" =>
            \A k \in 1..Len(body[s]) : body[s][k].index = k

\* The value a content type declares for key k (d when it declares none).
DeclaredOr(ct, k, d) ==
    IF \E i \in 1..Len(ct) : ct[i].key = k
    THEN ct[CHOOSE i \in 1..Len(ct) : ct[i].key = k].n
    ELSE d

\* C10: on both legacy transports a non-FLAC payload is wrapped in a header
\* carrying the declared channels and rate (1 and 16000 when not declared)
\* and 16-bit samples.
C10_RawPcmHeader ==
    \A s \in Sessions :
        (/\ loop = s
         /\ req[s].kind \in {"ws", "post"}
         /\ ~IsFlac(req[s].ctype))
        => /\ args.audio.channels = DeclaredOr(req[s].ctype, "channels", 1)
           /\ args.audio.rate = DeclaredOr(req[s].ctype, "rate", 16000)
           /\ args.audio.width = 2

\* C11: a request whose response_format is none of json, text, tsv, srt,
\* vtt, stream is rejected with 400 before transcription: the engine is
\* never invoked for it and no part of a result is in its response.
C11_BadFormatBeforeEngine ==
    \A s \in Sessions :
        (req[s].kind = "http" /\ req[s].fmt \notin Streamed \cup {"json"})
        => /\ calls[s] = 0
           /\ s \notin inEngine
           /\ body[s] = <<>>
           /\ status[s] \in {0, 400}

\* C12: for each of the six VAD fields on its own, the value the HTTP
\* handler passes to the engine is the caller's when the field was supplied
\* (an explicit 0 included) and the engine's default when it was not.
C12_VadOverlay ==
    \A s \in Sessions :
        (loop = s /\ req[s].kind = "http") =>
            \A f \in VadFields :
                /\ req[s].vad[f].none => args.vad_options[f].default
                /\ ~req[s].vad[f].none =>
                       /\ ~args.vad_options[f].default
                       /\ args.vad_options[f].v = req[s].vad[f].v

\* only vad_threshold supplied, as 0: the other five at the engine default
C12_OnlyThreshold ==
    \E s \in Sessions :
        /\ loop = s
        /\ req[s].vad = OnlyField("threshold", 0)
        /\ args.vad_options["threshold"] = Assigned(0)
        /\ \A f \in VadFields \ {"threshold"} :
               args.vad_options[f] = EngineDefault

\* The paths that end in gpt_refine_text.
RefinePath(s) ==
    /\ req[s].refine
    /\ \/ req[s].kind \in {"ws", "post"}
       \/ req[s].kind = "http" /\ req[s].fmt = "text"

\* C13: on a refinement path the handler suspends on the remote call only
\* with a non-empty text, an empty text is answered with the empty string
\* without a remote call, and a remote call that fails ends the request in
\* failure with nothing sent: every reply on such a path is the refined text
\* or the empty string, never the unrefined transcription.
C13_RefinementNotMasked ==
    [][\A s \in Sessions :
          (req'[s].refine /\ (\/ req'[s].kind \in {"ws", "post"}
                              \/ req'[s].kind = "http" /\ req'[s].fmt = "text"))
          => /\ pc'[s] = "refining" => gen'[s].pulled > 0 /\ body'[s] = <<>>
             /\ pc'[s] = "failed" => body'[s] = <<>>
             /\ \A i \in 1..Len(body'[s]) :
                    \/ body'[s][i].text = "refined" /\ body'[s][i].seg > 0
                    \/ /\ body'[s][i].text = "raw" /\ body'[s][i].seg = 0
                       /\ pc[s] \in {"transcribe", "done"}
             /\ pc[s] = "refining" =>
                    \/ pc'[s] \in {"refining", "failed"}
                    \/ pc'[s] = "done" /\ body'[s][1].text = "refined"]_vars

\* the remote call of a /post/gpt_refine request failed after a full
\* transcription: a server error and no reply body
C13_RefineFailed ==
    \E s \in Sessions :
        /\ RefinePath(s) /\ req[s].kind = "post"
        /\ pc[s] = "failed" /\ status[s] = 500
        /\ gen[s].pulled = MaxSegs /\ gen[s].exhausted
        /\ body[s] = <<>>

\* The handler of s has work to finish: its request waits for the event
\* loop, or its body is complete (an HTTP or POST request, a WebSocket
\* session past EOS, a turn past AudioStop) and its reply is not out yet.
Owed(s) == pc[s] \in {"queued", "transcribe", "streaming", "pulling", "refining"}

\* The handler of s has ended its request, or its turn with a Transcript.
Answered(s) == pc[s] \in {"done", "failed", "open"}

\* C14: with the event loop running every ready handler in turn and every
\* engine and refinement call returning, every request that is in and every
\* turn that reached AudioStop with an open buffer is eventually answered,
\* whatever the other session does with the engine meanwhile.
C14_EventuallyAnswered == \A s \in Sessions : Owed(s) ~> Answered(s)

\* one request waits while the other session is inside model.transcribe
C14_QueuedBehindEngine ==
    \E s, t \in Sessions :
        pc[s] = "queued" /\ loop = t /\ t \in inEngine /\ pc[t] = "transcribe"

\* C15: a connection's handler is Receiving (buffer open) exactly when a
\* chunk has arrived since its last AudioStop, and Idle otherwise;
\* handle_event returns False exactly for an AudioStop handled with an open
\* buffer, and then the buffer is closed and no language is pending, so the
\* next AudioChunk opens a buffer that holds that chunk alone; every other
\* event returns True.
C15_TurnStructure ==
    [][\A c \in Sessions :
          /\ pc'[c] = "open" => (h'[c].wav_open <=> turn'[c].chunks # <<>>)
          /\ last'.conn = c =>
                /\ last'.value = "False" =>
                      /\ last'.event = "AudioStop"
                      /\ turn[c].chunks # <<>>
                      /\ ~h'[c].wav_open /\ h'[c].lang = "None"
                /\ (last'.event = "AudioStop" /\ turn[c].chunks # <<>>) =>
                      last'.value = IF pc[c] = "open" THEN "pending" ELSE "False"
                /\ last'.event \in {"AudioChunk", "Transcribe", "Describe",
                                    "Unknown"} => last'.value = "True"
                /\ (last'.event = "AudioChunk" /\ ~h[c].wav_open) =>
                      /\ h'[c].wav_open
                      /\ Len(h'[c].file_obj.frames) = 1
          /\ (pc[c] = "transcribe" /\ req[c].kind = "wyoming"
                                  /\ pc'[c] # "transcribe") =>
                last'.conn = c /\ last'.value = "False"]_vars

\* a turn just ended with False: two chunks transcribed, the buffer closed
C15_TurnEnded ==
    \E c \in Sessions :
        /\ last.conn = c /\ last.event = "AudioStop" /\ last.value = "False"
        /\ last.wrote # <<>>
        /\ h[c].file_obj.frames = <<"a", "b">>
        /\ ~h[c].wav_open /\ h[c].lang = "None"

\* C16: a Describe event writes exactly one Info event and an unrecognized
\* event writes nothing, and both leave the buffer and the pending language
\* as they were; a Transcribe event leaves the buffer as it was, and the
\* pending language too when it carries no language; after each of the three
\* the connection is still open (handle_event returned True).
C16_FrameCondition ==
    [][\A c \in Sessions :
          last'.conn = c =>
             /\ last'.event = "Describe" =>
                    /\ last'.wrote = <<Frame("Info", 0, 0)>>
                    /\ h'[c] = h[c]
             /\ last'.event = "Unknown" =>
                    /\ last'.wrote = <<>>
                    /\ h'[c] = h[c]
             /\ last'.event = "Transcribe" =>
                    /\ h'[c].file_obj = h[c].file_obj
                    /\ h'[c].wav_open = h[c].wav_open
                    /\ last'.language = "" => h'[c].lang = h[c].lang
             /\ last'.event \in {"Describe", "Unknown", "Transcribe"} =>
                    /\ last'.value = "True"
                    /\ pc'[c] = "open" /\ connected'[c]]_vars

\* a Transcribe without a language was handled while a buffer was open and
\* a language was pending
C16_EmptyTranscribeWhileReceiving ==
    \E c \in Sessions :
        /\ last.conn = c /\ last.event = "Transcribe" /\ last.language = ""
        /\ h[c].wav_open /\ h[c].lang = "fr"
        /\ h[c].file_obj.frames = <<"a">>

\* C17: the rate, width and channel count of the file submitted to the
\* engine at an AudioStop are those declared by the first AudioChunk since
\* the connection's previous AudioStop, whatever later chunks of the turn
\* declared.
C17_FirstChunkSetsParameters ==
    \A c \in Sessions :
        /\ InWyoming(c) =>
              /\ args.audio.rate = turn[c].params.rate
              /\ args.audio.width = turn[c].params.width
              /\ args.audio.channels = turn[c].params.channels
        /\ (pc[c] = "open" /\ h[c].wav_open) =>
              /\ h[c].file_obj.rate = turn[c].params.rate
              /\ h[c].file_obj.width = turn[c].params.width
              /\ h[c].file_obj.channels = turn[c].params.channels

\* the second chunk of a turn declared other parameters than the first
C17_LaterChunkDiffers ==
    \E c \in Sessions :
        /\ last.conn = c /\ last.event = "AudioChunk" /\ last.params = Pcm8k
        /\ Len(turn[c].chunks) = 2
        /\ turn[c].params = Pcm16k
        /\ h[c].file_obj.rate = 16000

\* C18: while a handler is suspended on the remote chat-completion request
\* it has consumed its whole segment sequence, it is not inside the engine
\* and it does not hold the event loop, so another session's engine call can
\* run meanwhile.
C18_RefineOutsideEngine ==
    \A s \in Sessions :
        pc[s] = "refining" =>
            /\ gen[s].exhausted /\ gen[s].iters = 1
            /\ s \notin inEngine
            /\ loop # s

\* another session is inside model.transcribe while a refinement request is
\* outstanding
C18_EngineBusyDuringRefine ==
    \E s, t \in Sessions :
        /\ s # t
        /\ pc[s] = "refining"
        /\ loop = t /\ t \in inEngine /\ pc[t] = "transcribe"

\* C19: a legacy WebSocket session keeps receiving exactly as long as its
\* accumulated bytes do not end in EOS (however the sentinel is spread over
\* frames); past the receive loop the bytes end in EOS, the engine is called
\* once, and the one envelope is sent, after which the connection is closed;
\* no envelope is sent for bytes that do not end in EOS.
C19_WsLifecycle ==
    \A s \in Sessions :
        req[s].kind = "ws" =>
            /\ pc[s] = "receiving" =>
                   ~EndsWithEOS(data[s]) /\ calls[s] = 0 /\ body[s] = <<>>
            /\ pc[s] # "receiving" => EndsWithEOS(data[s]) /\ calls[s] = 1
            /\ Len(body[s]) <= 1
            /\ body[s] # <<>> =>
                   EndsWithEOS(data[s]) /\ pc[s] = "done" /\ ~connected[s]

\* The body of a WebSocket session: its bytes without the closing sentinel.
WithoutEOS(d) == IF EndsWithEOS(d) THEN SubSeq(d, 1, Len(d) - 3) ELSE d

\* C20: the bytes a legacy WebSocket session wraps as audio for the engine
\* and hashes into the id of its envelope are its accumulated bytes without
\* the trailing EOS, so that a POST of the same audio gets the same id.
C20_SentinelNotInBody ==
    /\ \A s \in Sessions :
          (req[s].kind = "ws" /\ EndsWithEOS(data[s])) =>
              /\ InKonele(s) => args.audio.frames = WithoutEOS(data[s])
              /\ body[s] # <<>> => body[s][1].id = md5(WithoutEOS(data[s]))
    /\ \A s, t \in Sessions :
          (/\ req[s].kind = "ws" /\ req[t].kind = "post"
           /\ body[s] # <<>> /\ body[t] # <<>>
           /\ WithoutEOS(data[s]) = data[t])
          => body[s][1].id = body[t][1].id

====
